---- MODULE Spec2Model ----
(***************************************************************************)
(* State-machine model of the builder-mode editing core of the App         *)
(* component: the part collection (customParts), the selection             *)
(* (selectedPartIndices) and the two history stacks (history, future),     *)
(* driven by the handlers handleAddPart, handleUpdatePart,                 *)
(* handleRemovePart, handlePartClick, handleBooleanOperation, handleUndo   *)
(* and handleRedo, and by the Sidebar callbacks that call them.            *)
(*                                                                         *)
(* JavaScript arrays are 0-based: an index i of the source addresses       *)
(* element i+1 of the TLA+ sequence.  Every handler runs to completion     *)
(* and the component re-renders before the next event, so each handler     *)
(* reads the state left by the previous one.                               *)
(***************************************************************************)
EXTENDS Integers, Sequences, FiniteSets, TLC

VARIABLES customParts, selectedPartIndices, history, future, lastOp

vars == <<customParts, selectedPartIndices, history, future, lastOp>>

(***************************************************************************)
(* Bounds of the model.                                                    *)
(***************************************************************************)
MaxParts == 3
MaxHist == 4

(***************************************************************************)
(* Inputs the user interface can deliver.                                  *)
(***************************************************************************)
AddTypes == {"BOX", "CYLINDER"}
BooleanTypes == {"UNION", "SUBTRACT", "INTERSECT"}
EditKeys == {"position"}
EditAxes == {0}
EditVals == {"1"}
Centers == {<<1, 0, 0>>}
\* the add buttons of the sidebar with the segments slider
SidebarTypes == {"BOX", "SPHERE", "CYLINDER", "PRISM", "PYRAMID", "CONE"}
\* the kinds either sidebar can add (the older one still offers the wedge)
RendererTypes == SidebarTypes \cup {"WEDGE"}
\* positions of the segments slider (3..12 for prisms and pyramids, 8..64 otherwise)
SliderVals(type) == IF type \in {"PRISM", "PYRAMID"} THEN {"5"} ELSE {"16"}
\* variant with one range for every kind
SliderEnds_Uniform(type) == {"3", "64"}

\* the two ends of the segments slider: min and max depend on the kind
SliderEnds(type) == IF type \in {"PRISM", "PYRAMID"} THEN {"3", "12"} ELSE {"8", "64"}
\* contents of a numeric scale field: a number, or empty while retyping
ScaleVals == {"1", ""}
ScaleAxes == {0, 1}
\* strings handed to handleSegmentChange: below 3, above 64, not a number
SegmentTexts == {"1", "100", "abc"}
\* values of the colour picker of the property editor
EditColors == {"#ff0000"}

(***************************************************************************)
(* Array helpers: the JavaScript array operations the handlers use.        *)
(***************************************************************************)
At(arr, i) == arr[i + 1]

Includes(arr, x) == \E k \in 1..Len(arr) : arr[k] = x

\* arr.filter(i => i !== x)
FilterOut(arr, x) == SelectSeq(arr, LAMBDA e : e # x)

\* arr.slice(0, -1)
SliceInit(arr) == SubSeq(arr, 1, Len(arr) - 1)

\* arr.slice(1)
SliceTail(arr) == SubSeq(arr, 2, Len(arr))

RECURSIVE InsertAsc(_, _)
InsertAsc(sorted, x) ==
    IF sorted = <<>> THEN <<x>>
    ELSE IF x - Head(sorted) < 0 THEN <<x>> \o sorted
    ELSE <<Head(sorted)>> \o InsertAsc(Tail(sorted), x)

\* variant that leaves the indices in the order they were selected in
SortAsc_Unsorted(arr) == arr

\* [...arr].sort((a, b) => a - b)
RECURSIVE SortAsc(_)
SortAsc(arr) ==
    IF arr = <<>> THEN <<>>
    ELSE InsertAsc(SortAsc(SliceInit(arr)), arr[Len(arr)])

(***************************************************************************)
(* The editing state as one value, and the state of the current render.    *)
(***************************************************************************)
st == [customParts |-> customParts,
       selectedPartIndices |-> selectedPartIndices,
       history |-> history,
       future |-> future]

\* The JavaScript value undefined: an absent optional field, an array hole.
Undefined == [undefined |-> TRUE]

(***************************************************************************)
(* History manager.                                                        *)
(***************************************************************************)
\* variant that keeps the redo entries when a snapshot is taken
pushToHistory_KeepFuture(s) ==
    [s EXCEPT !.history = Append(s.history, s.customParts)]

pushToHistory(s) ==
    [s EXCEPT !.history = Append(s.history, s.customParts),
              !.future = <<>>]

\* variant that restores the oldest snapshot instead of the newest
handleUndo_Oldest(s) ==
    IF Len(s.history) = 0 THEN s
    ELSE LET previous == s.history[1]
             newHistory == SliceInit(s.history)
         IN [customParts |-> previous,
             selectedPartIndices |-> <<>>,
             history |-> newHistory,
             future |-> <<s.customParts>> \o s.future]

\* variant that puts the undone collection at the back of future
handleUndo_FutureBack(s) ==
    IF Len(s.history) = 0 THEN s
    ELSE LET previous == s.history[Len(s.history)]
             newHistory == SliceInit(s.history)
         IN [customParts |-> previous,
             selectedPartIndices |-> <<>>,
             history |-> newHistory,
             future |-> Append(s.future, s.customParts)]

\* variant that saves the current collection for redo before looking at past
handleUndo_SaveFirst(s) ==
    IF Len(s.history) = 0 THEN [s EXCEPT !.future = <<s.customParts>> \o s.future]
    ELSE LET previous == s.history[Len(s.history)]
             newHistory == SliceInit(s.history)
         IN [customParts |-> previous,
             selectedPartIndices |-> <<>>,
             history |-> newHistory,
             future |-> <<s.customParts>> \o s.future]

handleUndo(s) ==
    IF Len(s.history) = 0 THEN s
    ELSE LET previous == s.history[Len(s.history)]
             newHistory == SliceInit(s.history)
         IN [customParts |-> previous,
             selectedPartIndices |-> <<>>,
             history |-> newHistory,
             future |-> <<s.customParts>> \o s.future]

\* variant that redoes the latest entry of future instead of the next one
handleRedo_Latest(s) ==
    IF Len(s.future) = 0 THEN s
    ELSE LET next == s.future[Len(s.future)]
             newFuture == SliceInit(s.future)
         IN [customParts |-> next,
             selectedPartIndices |-> <<>>,
             history |-> Append(s.history, s.customParts),
             future |-> newFuture]

\* variant that does not put the current collection back on history
handleRedo_DropCurrent(s) ==
    IF Len(s.future) = 0 THEN s
    ELSE LET next == s.future[1]
             newFuture == SliceTail(s.future)
         IN [customParts |-> next,
             selectedPartIndices |-> <<>>,
             history |-> s.history,
             future |-> newFuture]

handleRedo(s) ==
    IF Len(s.future) = 0 THEN s
    ELSE LET next == s.future[1]
             newFuture == SliceTail(s.future)
         IN [customParts |-> next,
             selectedPartIndices |-> <<>>,
             history |-> Append(s.history, s.customParts),
             future |-> newFuture]

(***************************************************************************)
(* Builder actions.                                                        *)
(***************************************************************************)
NewPart(type) ==
    [type |-> type,
     position |-> <<0, 0, 0>>,
     scale |-> IF type = "BOX" THEN <<2, 2, 2>> ELSE <<2, 2, 2>>,
     rotation |-> <<0, 0, 0>>,
     color |-> "#60a5fa",
     geometryData |-> Undefined]

\* variant that puts the new part in front of the others
handleAddPart_Prepend(s, type) ==
    LET p == pushToHistory(s)
    IN [p EXCEPT !.customParts = <<NewPart(type)>> \o s.customParts,
                 !.selectedPartIndices = <<Len(s.customParts)>>]

handleAddPart(s, type) ==
    LET p == pushToHistory(s)
    IN [p EXCEPT !.customParts = Append(s.customParts, NewPart(type)),
                 !.selectedPartIndices = <<Len(s.customParts)>>]

\* handleAddPart as created by the render that saw the state closure, run
\* when the pending state is s: setHistory takes an updater and so reads the
\* pending history, while setCustomParts and setSelectedPartIndices are
\* given values computed from the customParts of the closure
handleAddPartClosedOver(closure, s, type) ==
    [customParts |-> Append(closure.customParts, NewPart(type)),
     selectedPartIndices |-> <<Len(closure.customParts)>>,
     history |-> Append(s.history, closure.customParts),
     future |-> <<>>]

\* newParts = [...customParts]; newParts[index] = updatedPart
RECURSIVE PadTo(_, _)
PadTo(arr, n) == IF Len(arr) >= n THEN arr ELSE PadTo(Append(arr, Undefined), n)

SetAt(arr, index, v) ==
    IF index < 0 THEN arr
    ELSE IF index < Len(arr) THEN [arr EXCEPT ![index + 1] = v]
    ELSE Append(PadTo(arr, index), v)

\* variant that also clears the selection, as handleRemovePart does
handleUpdatePart_Deselect(s, index, updatedPart) ==
    LET p == pushToHistory(s)
        newParts == SetAt(s.customParts, index, updatedPart)
    IN [p EXCEPT !.customParts = newParts,
                 !.selectedPartIndices = <<>>]

\* variant that writes into customParts itself instead of a copy: the
\* snapshot just pushed is that same array and shows the new entry
handleUpdatePart_InPlace(s, index, updatedPart) ==
    LET newParts == SetAt(s.customParts, index, updatedPart)
    IN [s EXCEPT !.customParts = newParts,
                 !.history = Append(s.history, newParts),
                 !.future = <<>>]

handleUpdatePart(s, index, updatedPart) ==
    LET p == pushToHistory(s)
        newParts == SetAt(s.customParts, index, updatedPart)
    IN [p EXCEPT !.customParts = newParts]

\* variant that drops the last entry whatever the index
RemoveAt_Last(arr, index) ==
    IF index < 0 \/ index >= Len(arr) THEN arr ELSE SubSeq(arr, 1, Len(arr) - 1)

\* customParts.filter((_, i) => i !== index)
RemoveAt(arr, index) ==
    LET keep == {k \in 1..Len(arr) : k - 1 # index}
        F[k \in 0..Len(arr)] ==
            IF k = 0 THEN <<>>
            ELSE IF k \in keep THEN Append(F[k - 1], arr[k]) ELSE F[k - 1]
    IN F[Len(arr)]

\* variant that leaves the selection as it was
handleRemovePart_KeepSelection(s, index) ==
    LET p == pushToHistory(s)
        newParts == RemoveAt(s.customParts, index)
    IN [p EXCEPT !.customParts = newParts]

\* variant that takes no snapshot
handleRemovePart_NoSnapshot(s, index) ==
    LET newParts == RemoveAt(s.customParts, index)
    IN [s EXCEPT !.customParts = newParts,
                 !.selectedPartIndices = <<>>]

handleRemovePart(s, index) ==
    LET p == pushToHistory(s)
        newParts == RemoveAt(s.customParts, index)
    IN [p EXCEPT !.customParts = newParts,
                 !.selectedPartIndices = <<>>]

\* variant that takes a snapshot on every click
handlePartClick_Snapshot(s, index, multiSelect) ==
    LET p == pushToHistory(s)
    IN IF index = -1 THEN [p EXCEPT !.selectedPartIndices = <<>>]
       ELSE IF multiSelect
            THEN IF Includes(s.selectedPartIndices, index)
                 THEN [p EXCEPT !.selectedPartIndices = FilterOut(s.selectedPartIndices, index)]
                 ELSE [p EXCEPT !.selectedPartIndices = Append(s.selectedPartIndices, index)]
            ELSE [p EXCEPT !.selectedPartIndices = <<index>>]

handlePartClick(s, index, multiSelect) ==
    IF index = -1 THEN [s EXCEPT !.selectedPartIndices = <<>>]
    ELSE IF multiSelect
         THEN IF Includes(s.selectedPartIndices, index)
              THEN [s EXCEPT !.selectedPartIndices = FilterOut(s.selectedPartIndices, index)]
              ELSE [s EXCEPT !.selectedPartIndices = Append(s.selectedPartIndices, index)]
         ELSE [s EXCEPT !.selectedPartIndices = <<index>>]

(***************************************************************************)
(* Sidebar: the layer list and the property editor, which call the         *)
(* handlers above through onSelectPart and onUpdatePart.                   *)
(***************************************************************************)
\* onSelectPart is setSelectedPartIndices itself
onSelectPart(s, indices) == [s EXCEPT !.selectedPartIndices = indices]

\* variant that adds the row to the selection even when it is selected
layerClick_AlwaysAppend(s, idx, modifier) ==
    IF modifier THEN onSelectPart(s, Append(s.selectedPartIndices, idx))
    ELSE onSelectPart(s, <<idx>>)

layerClick(s, idx, modifier) ==
    LET isSelected == Includes(s.selectedPartIndices, idx)
    IN IF modifier
       THEN LET newSel == IF isSelected THEN FilterOut(s.selectedPartIndices, idx)
                          ELSE Append(s.selectedPartIndices, idx)
            IN onSelectPart(s, newSel)
       ELSE onSelectPart(s, <<idx>>)

\* parseFloat on the strings the numeric fields deliver
parseFloat(val) ==
    CASE val = "0" -> [nan |-> FALSE, num |-> 0]
      [] val = "1" -> [nan |-> FALSE, num |-> 1]
      [] val = "2" -> [nan |-> FALSE, num |-> 2]
      [] val = "-1" -> [nan |-> FALSE, num |-> -1]
      [] OTHER -> [nan |-> TRUE, num |-> 0]

\* parseFloat(val) || 0
OrZero(f) == IF f.nan \/ f.num = 0 THEN 0 ELSE f.num

\* part[key] || [0,0,0]
FieldOrZero(part, key) == IF part[key] = Undefined THEN <<0, 0, 0>> ELSE part[key]

handleValueChange(part, key, axis, val) ==
    LET newValue == OrZero(parseFloat(val))
        newArray == [FieldOrZero(part, key) EXCEPT ![axis + 1] = newValue]
    IN [part EXCEPT ![key] = newArray]

\* parseInt on the strings the segments slider delivers
parseInt(val) ==
    CASE val = "1" -> [nan |-> FALSE, num |-> 1]
      [] val = "3" -> [nan |-> FALSE, num |-> 3]
      [] val = "5" -> [nan |-> FALSE, num |-> 5]
      [] val = "8" -> [nan |-> FALSE, num |-> 8]
      [] val = "12" -> [nan |-> FALSE, num |-> 12]
      [] val = "16" -> [nan |-> FALSE, num |-> 16]
      [] val = "64" -> [nan |-> FALSE, num |-> 64]
      [] val = "100" -> [nan |-> FALSE, num |-> 100]
      [] OTHER -> [nan |-> TRUE, num |-> 0]

\* part.segments is optional; an absent or NaN count is written 0, which
\* every reader treats alike (segments || default)
Segments(part) == IF "segments" \in DOMAIN part THEN part.segments ELSE 0

\* { ...part, segments: v } with v clamped to 3..64 (NaN passes both tests)
handleSegmentChange(part, val) ==
    LET p == parseInt(val)
        v == IF p.nan THEN 0
             ELSE IF p.num < 3 THEN 3
             ELSE IF p.num > 64 THEN 64
             ELSE p.num
    IN [f \in DOMAIN part \cup {"segments"} |-> IF f = "segments" THEN v ELSE part[f]]

\* the count in the layer list name of a prism or pyramid: segments || 3
layerListFacets(part) == IF Segments(part) = 0 THEN 3 ELSE Segments(part)

\* the value prop of the segments slider:
\* segments || (type.includes('PRISM') ? 3 : 32)
sliderValue(part) ==
    IF Segments(part) # 0 THEN Segments(part)
    ELSE IF part.type = "PRISM" THEN 3 ELSE 32

\* what a range input shows for its value prop: the value brought into
\* min..max (3..12 for prisms and pyramids, 8..64 otherwise)
sliderShown(part) ==
    LET min == IF part.type \in {"PRISM", "PYRAMID"} THEN 3 ELSE 8
        max == IF part.type \in {"PRISM", "PYRAMID"} THEN 12 ELSE 64
        v == sliderValue(part)
    IN IF v < min THEN min ELSE IF v > max THEN max ELSE v

\* { ...part, color: newColor }
handleColorChange(part, newColor) == [part EXCEPT !.color = newColor]

(***************************************************************************)
(* Boolean operation.  The three.js geometries and the three-bvh-csg       *)
(* evaluator are external: a geometry is a term, either a unit primitive   *)
(* or the application of one operator to two brushes, and the bounding-box *)
(* centre of a result is an input of the action.                           *)
(***************************************************************************)
PrimitiveGeometry(shape, segments) == [shape |-> shape, segments |-> segments]

\* geometry.center(): the same mesh translated about the origin
Centered(geo) == [centered |-> geo]

\* geometry.toJSON() and new THREE.BufferGeometryLoader().parse(json)
ToJSON(geo) == [type |-> "BufferGeometry", data |-> geo]
ParseJSON(json) == json.data

(***************************************************************************)
(* PartRenderer: the geometry it renders a part with.                      *)
(***************************************************************************)
\* new THREE.SphereGeometry(0.5, widthSegments, heightSegments)
SphereGeometry(widthSegments, heightSegments) ==
    [shape |-> "SphereGeometry", segments |-> widthSegments,
     heightSegments |-> heightSegments]

\* geo.rotateX(Math.PI / 2)
RotateX(geo) == [rotatedX |-> geo]

\* variant that always takes the default
OrDefault_Always(a, b) == b

\* a || b on segment counts
OrDefault(a, b) == IF a = 0 THEN b ELSE a

\* the value of a useMemo that found no geometry
Null == [null |-> TRUE]

\* the geometry useMemo of PartRenderer; SphereGeometry floors its counts
geometry(part) ==
    LET type == part.type
        segments == Segments(part)
        segs == OrDefault(segments, 32)
    IN CASE type = "BOX" -> PrimitiveGeometry("BoxGeometry", 1)
         [] type = "SPHERE" ->
                SphereGeometry(segs, IF segs \div 2 > 16 THEN segs \div 2 ELSE 16)
         [] type = "CYLINDER" -> RotateX(PrimitiveGeometry("CylinderGeometry", segs))
         [] type = "PRISM" ->
                RotateX(PrimitiveGeometry("CylinderGeometry", OrDefault(segments, 3)))
         [] type = "WEDGE" -> RotateX(PrimitiveGeometry("CylinderGeometry", 3))
         [] type = "CONE" -> RotateX(PrimitiveGeometry("ConeGeometry", segs))
         [] type = "PYRAMID" ->
                RotateX(PrimitiveGeometry("ConeGeometry", OrDefault(segments, 4)))
         [] type = "CUSTOM" ->
                IF part.geometryData # Undefined THEN ParseJSON(part.geometryData)
                ELSE Null
         [] OTHER -> PrimitiveGeometry("BoxGeometry", 1)

\* the same useMemo when BufferGeometryLoader.parse may throw: the catch
\* logs the error and leaves geo null
geometryMemo(part, parseThrows) ==
    IF part.type = "CUSTOM" /\ part.geometryData # Undefined /\ parseThrows
    THEN Null
    ELSE geometry(part)

\* variant that hands the mesh whatever the useMemo found
PartRenderer_NoNullCheck(part, parseThrows) ==
    [geometry |-> geometryMemo(part, parseThrows),
     position |-> part.position,
     rotation |-> part.rotation,
     scale |-> part.scale]

\* what PartRenderer returns: null without a geometry, else the mesh
PartRenderer(part, parseThrows) ==
    LET geo == geometryMemo(part, parseThrows)
    IN IF geo = Null THEN Null
       ELSE [geometry |-> geo,
             position |-> part.position,
             rotation |-> part.rotation,
             scale |-> part.scale]

\* shape.parts.map((part, index) => <PartRenderer .. />); thrown holds the
\* indices of the parts whose baked mesh the loader rejects
ShapeRenderer(parts, thrown) ==
    [k \in 1..Len(parts) |-> PartRenderer(parts[k], (k - 1) \in thrown)]

\* part.rotation is optional: brush.rotation keeps its default when absent
createBrushFromPart(part) ==
    LET geo == IF part.type = "BOX" THEN PrimitiveGeometry("BoxGeometry", 1)
               ELSE IF part.type = "CYLINDER" THEN PrimitiveGeometry("CylinderGeometry", 32)
               ELSE IF part.type = "WEDGE" THEN PrimitiveGeometry("CylinderGeometry", 3)
               ELSE IF part.type = "CONE" THEN PrimitiveGeometry("ConeGeometry", 32)
               ELSE IF part.type = "CUSTOM" /\ part.geometryData # Undefined
                    THEN ParseJSON(part.geometryData)
               ELSE PrimitiveGeometry("BoxGeometry", 1)
    IN [geometry |-> geo,
        position |-> part.position,
        rotation |-> IF part.rotation # Undefined THEN part.rotation ELSE <<0, 0, 0>>,
        scale |-> part.scale]

\* the constant of three-bvh-csg chosen for the requested operation
CsgOp(type) ==
    IF type = "INTERSECT" THEN "INTERSECTION"
    ELSE IF type = "SUBTRACT" THEN "SUBTRACTION"
    ELSE "ADDITION"

\* evaluator.evaluate(a, b, op): a new brush holding the combined mesh
Evaluate(a, b, op) ==
    [geometry |-> [op |-> op, a |-> a, b |-> b],
     position |-> <<0, 0, 0>>,
     rotation |-> <<0, 0, 0>>,
     scale |-> <<1, 1, 1>>]

\* the loop of handleBooleanOperation over brushes[1..]
RECURSIVE ReduceBrushes(_, _, _, _)
ReduceBrushes(resultBrush, brushes, i, type) ==
    IF i < Len(brushes)
    THEN ReduceBrushes(Evaluate(resultBrush, At(brushes, i), CsgOp(type)), brushes, i + 1, type)
    ELSE resultBrush

\* variant that keeps the selected parts and drops the others
RemainingParts_KeepSelected(parts, sel) ==
    LET F[k \in 0..Len(parts)] ==
            IF k = 0 THEN <<>>
            ELSE IF Includes(sel, k - 1) THEN Append(F[k - 1], parts[k]) ELSE F[k - 1]
    IN F[Len(parts)]

\* customParts.filter((_, idx) => !selectedPartIndices.includes(idx))
RemainingParts(parts, sel) ==
    LET F[k \in 0..Len(parts)] ==
            IF k = 0 THEN <<>>
            ELSE IF ~Includes(sel, k - 1) THEN Append(F[k - 1], parts[k]) ELSE F[k - 1]
    IN F[Len(parts)]

\* handleBooleanOperation once the operand count has been accepted
applyBooleanOperation(s, type, center) ==
    LET p == pushToHistory(s)
        sortedIndices == SortAsc(s.selectedPartIndices)
        brushes == [k \in 1..Len(sortedIndices) |->
                       createBrushFromPart(At(s.customParts, sortedIndices[k]))]
        resultBrush == ReduceBrushes(brushes[1], brushes, 1, type)
        resGeometry == Centered(resultBrush.geometry)
        newPart == [type |-> "CUSTOM",
                    position |-> center,
                    scale |-> <<1, 1, 1>>,
                    rotation |-> <<0, 0, 0>>,
                    color |-> "#60a5fa",
                    geometryData |-> ToJSON(resGeometry)]
        remainingParts == RemainingParts(s.customParts, s.selectedPartIndices)
    IN [p EXCEPT !.customParts = Append(remainingParts, newPart),
                 !.selectedPartIndices = <<Len(remainingParts)>>]

\* variant that takes the snapshot before counting the operands
handleBooleanOperation_SnapshotFirst(s, type, center) ==
    IF Len(s.selectedPartIndices) < 2 THEN pushToHistory(s)
    ELSE applyBooleanOperation(s, type, center)

handleBooleanOperation(s, type, center) ==
    IF Len(s.selectedPartIndices) < 2 THEN s
    ELSE applyBooleanOperation(s, type, center)

\* variant in which the operands are removed before the evaluator runs
handleBooleanOperationThrown_PartialRemoval(s, type) ==
    IF Len(s.selectedPartIndices) < 2 THEN s
    ELSE [pushToHistory(s) EXCEPT
              !.customParts = RemainingParts(s.customParts, s.selectedPartIndices),
              !.selectedPartIndices = <<>>]

\* handleBooleanOperation when createBrushFromPart (BufferGeometryLoader.parse)
\* or evaluator.evaluate throws: the handler has no try/catch, so the state
\* updates queued before the throw (pushToHistory) are applied and the
\* statements after it (setCustomParts, setSelectedPartIndices) never run
handleBooleanOperationThrown(s, type) ==
    IF Len(s.selectedPartIndices) < 2 THEN s
    ELSE pushToHistory(s)

Apply(s) ==
    /\ customParts' = s.customParts
    /\ selectedPartIndices' = s.selectedPartIndices
    /\ history' = s.history
    /\ future' = s.future

MutatingOps == {"add", "update", "remove", "boolean"}

\* lastOp records the handler that ran last and what it was given: its index
\* and argument, the selection a boolean operation found (in click order),
\* and how many redo entries a mutating action found on the future stack.
Op(name, index, arg, sel) ==
    [name |-> name, index |-> index, arg |-> arg, sel |-> sel,
     discarded |-> IF name \in MutatingOps THEN Len(future) ELSE 0]

ValidIndices == 0..(Len(customParts) - 1)

\* Sidebar: const primaryIndex = selectedPartIndices.length === 1 ? selectedPartIndices[0] : null
HasPrimaryIndex == Len(selectedPartIndices) = 1
primaryIndex == selectedPartIndices[1]

Init ==
    /\ customParts = <<>>
    /\ selectedPartIndices = <<>>
    /\ history = <<>>
    /\ future = <<>>
    /\ lastOp = [name |-> "init", index |-> -1, arg |-> "", sel |-> <<>>, discarded |-> 0]

\* an add button of the sidebar
AddPart ==
    \E type \in AddTypes :
        /\ Len(history) < MaxHist
        /\ Len(customParts) < MaxParts
        /\ Apply(handleAddPart(st, type))
        /\ lastOp' = Op("add", Len(customParts), type, <<>>)

\* property editor (shown when exactly one part is selected): a numeric field edit
EditValue ==
    \E key \in EditKeys, axis \in EditAxes, val \in EditVals :
        /\ HasPrimaryIndex
        /\ Len(history) < MaxHist
        /\ Apply(handleUpdatePart(st, primaryIndex,
                     handleValueChange(At(customParts, primaryIndex), key, axis, val)))
        /\ lastOp' = Op("update", primaryIndex, key, <<>>)

\* the delete button of a selected row of the layer list
RemovePart ==
    \E idx \in ValidIndices :
        /\ Includes(selectedPartIndices, idx)
        /\ Len(history) < MaxHist
        /\ Apply(handleRemovePart(st, idx))
        /\ lastOp' = Op("remove", idx, "", <<>>)

\* viewport click: a part (index >= 0) or the background (index = -1)
PartClick ==
    \E index \in ValidIndices \cup {-1}, multiSelect \in BOOLEAN :
        /\ Apply(handlePartClick(st, index, multiSelect))
        /\ lastOp' = Op("click", -1, "", <<>>)

\* layer list click, with or without a modifier key
LayerClick ==
    \E idx \in ValidIndices, modifier \in BOOLEAN :
        /\ Apply(layerClick(st, idx, modifier))
        /\ lastOp' = Op("click", -1, "", <<>>)

\* the deselect-all link of the layer list
DeselectAll ==
    /\ Apply(onSelectPart(st, <<>>))
    /\ lastOp' = Op("click", -1, "", <<>>)

\* a boolean button of the sidebar; refused below two selected parts
BooleanOperation ==
    \E type \in BooleanTypes, center \in Centers :
        /\ Len(history) < MaxHist
        /\ Apply(handleBooleanOperation(st, type, center))
        /\ lastOp' = IF Len(selectedPartIndices) < 2
                      THEN Op("booleanRefused", -1, type, <<>>)
                      ELSE Op("boolean", -1, type, selectedPartIndices)

Undo ==
    /\ Apply(handleUndo(st))
    /\ lastOp' = Op("undo", -1, IF Len(history) = 0 THEN "empty" ELSE "", <<>>)

Redo ==
    /\ Apply(handleRedo(st))
    /\ lastOp' = Op("redo", -1, IF Len(future) = 0 THEN "empty" ELSE "", <<>>)

Next ==
    \/ AddPart
    \/ EditValue
    \/ RemovePart
    \/ PartClick
    \/ LayerClick
    \/ DeselectAll
    \/ BooleanOperation
    \/ Undo
    \/ Redo

Spec == Init /\ [][Next]_vars

(***************************************************************************)
(* The builder with the colour picker of the property editor: parts are    *)
(* added, selected, recoloured and combined.                               *)
(***************************************************************************)
\* property editor (shown when exactly one part is selected): the colour picker
EditColor ==
    \E newColor \in EditColors :
        /\ HasPrimaryIndex
        /\ Len(history) < MaxHist
        /\ Apply(handleUpdatePart(st, primaryIndex,
                     handleColorChange(At(customParts, primaryIndex), newColor)))
        /\ lastOp' = Op("update", primaryIndex, "color", <<>>)

NextColor ==
    \/ AddPart
    \/ EditColor
    \/ LayerClick
    \/ BooleanOperation
    \/ Undo
    \/ Redo

SpecColor == Init /\ [][NextColor]_vars

(***************************************************************************)
(* The builder with an evaluator that may throw: a boolean operation       *)
(* either completes or is abandoned at the throw.                          *)
(***************************************************************************)
\* a boolean button of the sidebar, pressed when the external library throws
BooleanOperationThrown ==
    \E type \in BooleanTypes :
        /\ Len(selectedPartIndices) >= 2
        /\ Len(history) < MaxHist
        /\ Apply(handleBooleanOperationThrown(st, type))
        /\ lastOp' = [name |-> "booleanThrown", index |-> -1, arg |-> type,
                      sel |-> selectedPartIndices, discarded |-> Len(future)]

NextThrown ==
    \/ AddPart
    \/ LayerClick
    \/ BooleanOperation
    \/ BooleanOperationThrown
    \/ Undo
    \/ Redo

SpecThrown == Init /\ [][NextThrown]_vars

(***************************************************************************)
(* The builder with the sidebar that offers six kinds of part and the      *)
(* segments slider.                                                        *)
(***************************************************************************)
\* an add button of the sidebar
AddShape ==
    \E type \in SidebarTypes :
        /\ Len(history) < MaxHist
        /\ Len(customParts) < MaxParts
        /\ Apply(handleAddPart(st, type))
        /\ lastOp' = Op("add", Len(customParts), type, <<>>)

\* property editor: the segments slider, shown for every kind but boxes and
\* custom parts
EditSegments ==
    /\ HasPrimaryIndex
    /\ Len(history) < MaxHist
    /\ At(customParts, primaryIndex).type \notin {"BOX", "CUSTOM"}
    /\ \E val \in SliderVals(At(customParts, primaryIndex).type) :
           /\ Apply(handleUpdatePart(st, primaryIndex,
                        handleSegmentChange(At(customParts, primaryIndex), val)))
           /\ lastOp' = Op("update", primaryIndex, "segments", <<>>)

\* layer list click without a modifier key: the row becomes the selection
LayerSelect ==
    \E idx \in ValidIndices :
        /\ Apply(layerClick(st, idx, FALSE))
        /\ lastOp' = Op("click", -1, "", <<>>)

NextSegments ==
    \/ AddShape
    \/ EditSegments
    \/ LayerSelect

SpecSegments == Init /\ [][NextSegments]_vars

(***************************************************************************)
(* The builder with every kind of part either sidebar can add, and the     *)
(* segments slider.                                                        *)
(***************************************************************************)
\* an add button of either sidebar
AddKind ==
    \E type \in RendererTypes :
        /\ Len(history) < MaxHist
        /\ Len(customParts) < MaxParts
        /\ Apply(handleAddPart(st, type))
        /\ lastOp' = Op("add", Len(customParts), type, <<>>)

NextKinds ==
    \/ AddKind
    \/ EditSegments
    \/ LayerSelect

SpecKinds == Init /\ [][NextKinds]_vars

(***************************************************************************)
(* The builder with the segments slider moved to either end of its range.  *)
(***************************************************************************)
\* property editor: the segments slider dragged to its minimum or maximum
EditSliderEnd ==
    /\ HasPrimaryIndex
    /\ Len(history) < MaxHist
    /\ At(customParts, primaryIndex).type \notin {"BOX", "CUSTOM"}
    /\ \E val \in SliderEnds(At(customParts, primaryIndex).type) :
           /\ Apply(handleUpdatePart(st, primaryIndex,
                        handleSegmentChange(At(customParts, primaryIndex), val)))
           /\ lastOp' = Op("update", primaryIndex, "segments", <<>>)

NextSlider ==
    \/ AddShape
    \/ EditSliderEnd
    \/ LayerSelect

SpecSlider == Init /\ [][NextSlider]_vars

(***************************************************************************)
(* The builder with the numeric scale fields of the property editor.       *)
(***************************************************************************)
\* property editor: a scale field changes; onChange fires on every keystroke
EditScale ==
    \E axis \in ScaleAxes, val \in ScaleVals :
        /\ HasPrimaryIndex
        /\ Len(history) < MaxHist
        /\ Apply(handleUpdatePart(st, primaryIndex,
                     handleValueChange(At(customParts, primaryIndex), "scale", axis, val)))
        /\ lastOp' = Op("update", primaryIndex, "scale", <<>>)

NextScale ==
    \/ AddPart
    \/ EditScale
    \/ LayerSelect
    \/ Undo

SpecScale == Init /\ [][NextScale]_vars

(***************************************************************************)
(* The segments handler of the property editor given any string.           *)
(***************************************************************************)
\* handleSegmentChange(val) on the selected part
EditSegmentsText ==
    /\ HasPrimaryIndex
    /\ Len(history) < MaxHist
    /\ At(customParts, primaryIndex).type \notin {"BOX", "CUSTOM"}
    /\ \E val \in SegmentTexts :
           /\ Apply(handleUpdatePart(st, primaryIndex,
                        handleSegmentChange(At(customParts, primaryIndex), val)))
           /\ lastOp' = Op("update", primaryIndex, val, <<>>)

NextText ==
    \/ AddShape
    \/ EditSegmentsText
    \/ LayerSelect

SpecText == Init /\ [][NextText]_vars

(***************************************************************************)
(* The builder when a second add is dispatched before the component has    *)
(* rendered again: both calls run the handler of the same render.          *)
(***************************************************************************)
AddTwiceBeforeRender ==
    \E first \in AddTypes, second \in AddTypes :
        /\ Len(history) + 1 < MaxHist
        /\ Len(customParts) < MaxParts
        /\ Apply(handleAddPartClosedOver(st, handleAddPartClosedOver(st, st, first), second))
        /\ lastOp' = Op("add", Len(customParts), second, <<>>)

NextBatch ==
    \/ AddPart
    \/ AddTwiceBeforeRender
    \/ LayerClick
    \/ Undo
    \/ Redo

SpecBatch == Init /\ [][NextBatch]_vars

(***************************************************************************)
(* The handlers addressed at a stale index.  onUpdatePart and onRemovePart *)
(* are handed to the sidebar and to the viewport as props and take any     *)
(* number as index.                                                        *)
(***************************************************************************)
\* the two indices next to the valid range
StaleIndices == {-1, Len(customParts)}

\* onUpdatePart(index, updatedPart) with an index outside the collection
StaleUpdate ==
    \E index \in StaleIndices, type \in AddTypes :
        /\ Len(history) < MaxHist
        /\ Len(customParts) < MaxParts
        /\ Apply(handleUpdatePart(st, index, NewPart(type)))
        /\ lastOp' = Op("update", index, "stale", <<>>)

\* onRemovePart(index) with an index outside the collection
StaleRemove ==
    \E index \in StaleIndices :
        /\ Len(history) < MaxHist
        /\ Apply(handleRemovePart(st, index))
        /\ lastOp' = Op("remove", index, "stale", <<>>)

NextStale ==
    \/ AddPart
    \/ LayerClick
    \/ StaleUpdate
    \/ StaleRemove
    \/ Undo
    \/ Redo

SpecStale == Init /\ [][NextStale]_vars

(***************************************************************************)
(* Properties of the history manager.                                      *)
(***************************************************************************)
state == <<customParts, selectedPartIndices, history, future>>

\* the descriptors the property editor can write over the part at index
EditedParts(index) ==
    {handleValueChange(At(customParts, index), key, axis, val) :
        key \in EditKeys, axis \in EditAxes, val \in EditVals}

\* C1: right after a successful mutating action (add, update, remove, boolean
\* operation on at least two parts), also when undos came before it, the
\* future stack is empty and a redo leaves the whole state as it is.
C1_MutationClearsFuture ==
    lastOp.name \in MutatingOps =>
        /\ future = <<>>
        /\ handleRedo(st) = st

\* a mutating action has just run in a state that undos had left with redo entries
C1_Witness ==
    /\ lastOp.name \in MutatingOps
    /\ lastOp.discarded >= 2
    /\ customParts # <<>>

\* C2: from every reachable state, a mutating action followed at once by undo
\* gives back the part collection the action started from; after a removal
\* at index i the removed part is at index i again.
C2_UndoRevertsMutation ==
    /\ \A type \in AddTypes :
           handleUndo(handleAddPart(st, type)).customParts = customParts
    /\ \A index \in ValidIndices : \A updatedPart \in EditedParts(index) :
           handleUndo(handleUpdatePart(st, index, updatedPart)).customParts = customParts
    /\ \A index \in ValidIndices :
           LET restored == handleUndo(handleRemovePart(st, index)).customParts
           IN /\ restored = customParts
              /\ Len(restored) = Len(customParts)
              /\ At(restored, index) = At(customParts, index)
    /\ Len(selectedPartIndices) >= 2 =>
           \A type \in BooleanTypes, center \in Centers :
               handleUndo(handleBooleanOperation(st, type, center)).customParts = customParts

\* an undo has just reverted the removal of a part that was not the last one:
\* the collection the undo left behind is the current one without entry i
C2_Witness ==
    /\ lastOp.name = "undo"
    /\ lastOp.arg # "empty"
    /\ Len(history) >= 1
    /\ \E i \in ValidIndices :
           /\ i + 1 < Len(customParts)
           /\ At(customParts, i) # At(customParts, i + 1)
           /\ future[1] = RemoveAt(customParts, i)

\* C3: an undo that finds past non-empty removes exactly its last entry, makes
\* that entry the part collection, puts the collection it replaced in front
\* of future, whose other entries keep their order, and empties the selection.
C3_UndoStep ==
    [][(lastOp'.name = "undo" /\ Len(history) > 0) =>
          /\ history' = SubSeq(history, 1, Len(history) - 1)
          /\ customParts' = history[Len(history)]
          /\ future' = <<customParts>> \o future
          /\ selectedPartIndices' = <<>>]_vars

\* a second undo in a row has run and past is still not exhausted
C3_Witness ==
    /\ lastOp.name = "undo"
    /\ lastOp.arg # "empty"
    /\ Len(future) >= 2
    /\ future[1] # future[2]
    /\ Len(history) >= 1

\* C4: a redo that finds future non-empty removes exactly its first entry,
\* makes that entry the part collection, appends the collection it replaced
\* to past, and empties the selection.
C4_RedoStep ==
    [][(lastOp'.name = "redo" /\ Len(future) > 0) =>
          /\ future' = SubSeq(future, 2, Len(future))
          /\ customParts' = future[1]
          /\ history' = history \o <<customParts>>
          /\ selectedPartIndices' = <<>>]_vars

\* a redo has run and left further redo entries behind
C4_Witness ==
    /\ lastOp.name = "redo"
    /\ lastOp.arg # "empty"
    /\ Len(future) >= 2
    /\ Len(history) >= 2

\* C5: an undo that finds past empty and a redo that finds future empty change
\* nothing: part collection, selection, past and future stay as they are.
C5_EmptyStackNoOp ==
    [][((lastOp'.name = "undo" /\ Len(history) = 0)
          \/ (lastOp'.name = "redo" /\ Len(future) = 0)) =>
          UNCHANGED state]_vars

\* undos have exhausted past and one more undo has run
C5_Witness ==
    /\ lastOp.name = "undo"
    /\ lastOp.arg = "empty"
    /\ Len(future) >= 2
    /\ future[1] # future[2]
(***************************************************************************)
(* Properties of the selection and of the boolean operation.               *)
(***************************************************************************)
\* C6: in every reachable state every selected index addresses a part of
\* the collection: 0 <= index < length, also right after a structural change.
C6_SelectionInRange ==
    \A k \in 1..Len(selectedPartIndices) :
        /\ 0 <= selectedPartIndices[k]
        /\ selectedPartIndices[k] < Len(customParts)

\* a boolean operation has just replaced two of three parts: the collection
\* is shorter than before and the selection addresses the result part
C6_Witness ==
    /\ lastOp.name = "boolean"
    /\ Len(lastOp.sel) = 2
    /\ Len(customParts) = 2
    /\ selectedPartIndices = <<1>>

\* C7: every successful mutating action lengthens past by exactly one entry,
\* the part collection as it was before the action changed it.
C7_OneSnapshotPerMutation ==
    [][lastOp'.name \in MutatingOps => history' = Append(history, customParts)]_vars

\* a removal has run on top of earlier snapshots and changed the collection
C7_Witness ==
    /\ lastOp.name = "remove"
    /\ Len(history) >= 3
    /\ history[Len(history)] # customParts
    /\ history[Len(history)] # history[Len(history) - 1]

\* C8: a boolean operation requested with fewer than two selected parts
\* changes nothing: part collection, selection, past and future stay the same.
C8_TooFewOperandsRefused ==
    [][lastOp'.name = "booleanRefused" => UNCHANGED state]_vars

\* a boolean operation was refused with one part selected and redo entries pending
C8_Witness ==
    /\ lastOp.name = "booleanRefused"
    /\ Len(selectedPartIndices) = 1
    /\ future # <<>>
    /\ history # <<>>

SelectedSet == {selectedPartIndices[k] : k \in 1..Len(selectedPartIndices)}

MinOf(S) == CHOOSE x \in S : \A y \in S : x <= y
MaxOf(S) == CHOOSE x \in S : \A y \in S : y <= x

\* the operator the boolean primitive is to be given for a requested operation
ExpectedOperator(type) ==
    CASE type = "UNION" -> "ADDITION"
      [] type = "SUBTRACT" -> "SUBTRACTION"
      [] type = "INTERSECT" -> "INTERSECTION"

\* the left-to-right fold of the parts at the indices S, lowest index first
RECURSIVE FoldAscending(_, _, _)
FoldAscending(parts, S, type) ==
    IF Cardinality(S) = 1
    THEN createBrushFromPart(At(parts, MinOf(S)))
    ELSE Evaluate(FoldAscending(parts, S \ {MaxOf(S)}, type),
                  createBrushFromPart(At(parts, MaxOf(S))),
                  ExpectedOperator(type))

\* the mesh a result part holds, before it was centred and serialized
ResultMesh(part) == ParseJSON(part.geometryData).centered

IsEvaluation(geo) == "op" \in DOMAIN geo

\* pairwise evaluations on the left spine of a result mesh
RECURSIVE Evaluations(_)
Evaluations(geo) ==
    IF IsEvaluation(geo) THEN 1 + Evaluations(geo.a.geometry) ELSE 0

\* the brush everything else is combined into (the minuend of a subtraction)
RECURSIVE FirstOperand(_)
FirstOperand(brush) ==
    IF IsEvaluation(brush.geometry) /\ IsEvaluation(brush.geometry.a.geometry)
    THEN FirstOperand(brush.geometry.a)
    ELSE brush.geometry.a

\* the brushes combined into the first operand (the subtrahends)
RECURSIVE LaterOperands(_)
LaterOperands(geo) ==
    IF IsEvaluation(geo) THEN {geo.b} \cup LaterOperands(geo.a.geometry) ELSE {}

C10_FirstSelectedIsMinuend ==
    [][(lastOp'.name = "boolean" /\ lastOp'.arg = "SUBTRACT") =>
          LET mesh == ResultMesh(customParts'[Len(customParts')])
          IN /\ FirstOperand([geometry |-> mesh]) =
                    createBrushFromPart(At(customParts, selectedPartIndices[1]))
             /\ LaterOperands(mesh) =
                    {createBrushFromPart(At(customParts, selectedPartIndices[k])) :
                        k \in 2..Len(selectedPartIndices)}]_vars
(***************************************************************************)
(* Properties of the part collection operations.                           *)
(***************************************************************************)
\* the entries of parts at the 0-based indices of keep, in ascending index order
RECURSIVE PartsAt(_, _)
PartsAt(parts, keep) ==
    IF keep = {} THEN <<>>
    ELSE Append(PartsAt(parts, keep \ {MaxOf(keep)}), At(parts, MaxOf(keep)))

\* C11: a boolean operation on k >= 2 selected parts of a collection of
\* length n leaves n-k+1 parts: the unselected parts in their original
\* relative order, none of the selected ones, then the one result part as
\* last entry; the selection becomes exactly {n-k}.
C11_BooleanReplacesOperands ==
    Len(selectedPartIndices) >= 2 =>
        \A type \in BooleanTypes, center \in Centers :
            LET r == handleBooleanOperation(st, type, center)
                n == Len(customParts)
                k == Cardinality(SelectedSet)
                unselected == (0..(n - 1)) \ SelectedSet
            IN /\ Len(r.customParts) = n - k + 1
               /\ SubSeq(r.customParts, 1, n - k) = PartsAt(customParts, unselected)
               /\ r.customParts[n - k + 1].type = "CUSTOM"
               /\ r.selectedPartIndices = <<n - k>>

\* a boolean operation has just consumed the first and the last of three
\* parts: the part that was in the middle is now first, the result second
C11_Witness ==
    /\ lastOp.name = "boolean"
    /\ {lastOp.sel[k] : k \in 1..Len(lastOp.sel)} = {0, 2}
    /\ Len(history[Len(history)]) = 3
    /\ Len(customParts) = 2
    /\ customParts[1] = history[Len(history)][2]
    /\ customParts[1] # history[Len(history)][1]
    /\ customParts[2].type = "CUSTOM"
    /\ selectedPartIndices = <<1>>
\* C12: the part produced by a boolean operation has kind Custom, rotation
\* [0,0,0], scale [1,1,1], position equal to the computed centre of the
\* result mesh, a baked mesh, and the colour of the lowest-index operand.
C12_ResultPartDescriptor ==
    Len(selectedPartIndices) >= 2 =>
        \A type \in BooleanTypes, center \in Centers :
            LET r == handleBooleanOperation(st, type, center)
                result == r.customParts[Len(r.customParts)]
                lowest == At(customParts, MinOf(SelectedSet))
            IN /\ result.type = "CUSTOM"
               /\ result.rotation = <<0, 0, 0>>
               /\ result.scale = <<1, 1, 1>>
               /\ result.position = center
               /\ result.geometryData # Undefined
               /\ result.color = lowest.color
\* C13: if the external boolean primitive, or the brush construction for an
\* operand, fails during a boolean operation, the collection and the
\* selection are exactly what they were before: no operand is removed and
\* no result part is appended.
C13_FailureKeepsCollection ==
    Len(selectedPartIndices) >= 2 =>
        \A type \in BooleanTypes :
            LET r == handleBooleanOperationThrown(st, type)
            IN /\ r.customParts = customParts
               /\ r.selectedPartIndices = selectedPartIndices

\* a boolean operation on two of three parts has just been abandoned: the
\* three parts and the selection it found are still there
C13_Witness ==
    /\ lastOp.name = "booleanThrown"
    /\ Len(customParts) = 3
    /\ Len(lastOp.sel) = 2
    /\ selectedPartIndices = lastOp.sel
    /\ \A k \in 1..3 : customParts[k].type # "CUSTOM"

\* C14: on every failure path of a boolean operation after the operand
\* count check has passed, past and future are the same as before the
\* failed operation: it adds no undo step and discards no redo entry.
C14_FailureKeepsHistory ==
    Len(selectedPartIndices) >= 2 =>
        \A type \in BooleanTypes :
            LET r == handleBooleanOperationThrown(st, type)
            IN /\ r.history = history
               /\ r.future = future
\* C15: updatePart and removePart addressed at an index outside
\* 0 <= index < length refuse the operation: the collection (length and
\* every entry), the selection, past and future are unchanged.
C15_StaleIndexRefused ==
    \A index \in StaleIndices :
        /\ handleRemovePart(st, index) = st
        /\ \A type \in AddTypes : handleUpdatePart(st, index, NewPart(type)) = st
(***************************************************************************)
(* Properties of the brush factory.                                        *)
(***************************************************************************)
\* a primitive geometry without the rotation applied to it
Unrotated(geo) == IF "rotatedX" \in DOMAIN geo THEN geo.rotatedX ELSE geo

Family(geo) ==
    CASE Unrotated(geo).shape = "BoxGeometry" -> "box"
      [] Unrotated(geo).shape = "SphereGeometry" -> "sphere"
      [] Unrotated(geo).shape = "CylinderGeometry" -> "cylinder/prism"
      [] Unrotated(geo).shape = "ConeGeometry" -> "cone/pyramid"

Facets(geo) == Unrotated(geo).segments

\* three.js builds cylinders and cones along Y; the renderer turns them onto Z
HeightAxis(geo) == IF "rotatedX" \in DOMAIN geo THEN "Z" ELSE "Y"

\* C16: for every non-Custom part, the brush built for a boolean operation
\* uses the same unit geometry as the renderer for the same (kind,
\* segments): same primitive family, same facet count and same height-axis
\* alignment.
C16_BrushMatchesRenderer ==
    \A k \in 1..Len(customParts) :
        customParts[k].type # "CUSTOM" =>
            LET brush == createBrushFromPart(customParts[k]).geometry
                rendered == geometry(customParts[k])
            IN /\ Family(brush) = Family(rendered)
               /\ Facets(brush) = Facets(rendered)
               /\ HeightAxis(brush) = HeightAxis(rendered)
(***************************************************************************)
(* Properties of the part collection and the selection.                    *)
(***************************************************************************)
\* C17: addPart(kind) on a collection of length n appends one
\* default-configured part of that kind at index n, leaves entries 0..n-1
\* unchanged, and sets the selection to exactly {n}.
C17_AddAppendsDefaultPart ==
    \A type \in AddTypes :
        LET r == handleAddPart(st, type)
            n == Len(customParts)
        IN /\ Len(r.customParts) = n + 1
           /\ At(r.customParts, n).type = type
           /\ At(r.customParts, n).position = <<0, 0, 0>>
           /\ At(r.customParts, n).scale = <<2, 2, 2>>
           /\ At(r.customParts, n).rotation = <<0, 0, 0>>
           /\ At(r.customParts, n).color = "#60a5fa"
           /\ At(r.customParts, n).geometryData = Undefined
           /\ \A i \in 0..(n - 1) : At(r.customParts, i) = At(customParts, i)
           /\ r.selectedPartIndices = <<n>>

\* a cylinder has just been added behind a box and one other part
C17_Witness ==
    /\ lastOp.name = "add"
    /\ lastOp.index = 2
    /\ Len(customParts) = 3
    /\ customParts[1].type = "BOX"
    /\ customParts[3].type = "CYLINDER"
    /\ SubSeq(customParts, 1, 2) = history[Len(history)]
    /\ selectedPartIndices = <<2>>

\* C18: removePart(i) with a valid index removes exactly entry i, keeps the
\* entries before i at their index, shifts every entry after i down by one,
\* and leaves the selection empty, whatever was selected before.
C18_RemoveShiftsLaterParts ==
    \A i \in ValidIndices :
        LET r == handleRemovePart(st, i)
            n == Len(customParts)
        IN /\ Len(r.customParts) = n - 1
           /\ \A j \in 0..(i - 1) : At(r.customParts, j) = At(customParts, j)
           /\ \A j \in i..(n - 2) : At(r.customParts, j) = At(customParts, j + 1)
           /\ r.selectedPartIndices = <<>>

\* the first of three parts has just been removed: the two others, the
\* nearer of which differs from it, have moved down by one
C18_Witness ==
    /\ lastOp.name = "remove"
    /\ lastOp.index = 0
    /\ Len(history[Len(history)]) = 3
    /\ history[Len(history)][1] # history[Len(history)][2]
    /\ customParts = SubSeq(history[Len(history)], 2, 3)
    /\ selectedPartIndices = <<>>

\* C19: updatePart(i, d) with a valid index changes only entry i of the
\* collection (to d): the length, every other entry and the selection are
\* unchanged.
C19_UpdateChangesOneEntry ==
    \A i \in ValidIndices :
        \A d \in EditedParts(i) \cup {NewPart(type) : type \in AddTypes} :
            LET r == handleUpdatePart(st, i, d)
            IN /\ Len(r.customParts) = Len(customParts)
               /\ At(r.customParts, i) = d
               /\ \A j \in ValidIndices \ {i} : At(r.customParts, j) = At(customParts, j)
               /\ r.selectedPartIndices = selectedPartIndices

\* the middle one of three parts has just been edited: it differs from
\* what it was, its two neighbours do not, and it is still the selection
C19_Witness ==
    /\ lastOp.name = "update"
    /\ lastOp.index = 1
    /\ Len(customParts) = 3
    /\ Len(history[Len(history)]) = 3
    /\ customParts[2] # history[Len(history)][2]
    /\ customParts[1] = history[Len(history)][1]
    /\ customParts[3] = history[Len(history)][3]
    /\ selectedPartIndices = <<1>>

\* C20: the selection actions (single select, multi-select toggle, clear by
\* index -1 or by the sidebar) change only the selection: collection, past
\* and future are unchanged, so a selection change never creates an undo
\* step nor clears redo entries.
C20_SelectionOnlyChangesSelection ==
    LET Kept(r) == /\ r.customParts = customParts
                   /\ r.history = history
                   /\ r.future = future
    IN /\ \A index \in ValidIndices \cup {-1}, multiSelect \in BOOLEAN :
              Kept(handlePartClick(st, index, multiSelect))
       /\ \A idx \in ValidIndices, modifier \in BOOLEAN :
              Kept(layerClick(st, idx, modifier))
       /\ Kept(onSelectPart(st, <<>>))

\* a click has just left two parts selected while both an undo step and a
\* redo entry are pending
C20_Witness ==
    /\ lastOp.name = "click"
    /\ Len(selectedPartIndices) = 2
    /\ Len(history) >= 1
    /\ Len(future) >= 1
\* C21: the selection never contains the same index twice, after any
\* sequence of single-select and multi-select toggle actions (viewport
\* clicks and sidebar clicks) interleaved with mutating actions, undo and
\* redo.
C21_SelectionDuplicateFree ==
    \A i, j \in 1..Len(selectedPartIndices) :
        i # j => selectedPartIndices[i] # selectedPartIndices[j]

\* a click has just completed a selection of three parts, made in an order
\* other than index order
C21_Witness ==
    /\ lastOp.name = "click"
    /\ Len(selectedPartIndices) = 3
    /\ selectedPartIndices[1] > selectedPartIndices[2]
(***************************************************************************)
(* Properties of the geometry the renderer builds.                         *)
(***************************************************************************)
\* the documented facet count of a kind for a segments value (0: unset)
DocumentedFacets(type, segments) ==
    CASE type = "WEDGE" -> 3
      [] type = "PRISM" -> IF segments = 0 THEN 3 ELSE segments
      [] type = "PYRAMID" -> IF segments = 0 THEN 4 ELSE segments
      [] type \in {"CYLINDER", "CONE", "SPHERE"} -> IF segments = 0 THEN 32 ELSE segments

\* a descriptor whose kind the renderer does not know
UnrecognizedPart == [NewPart("BOX") EXCEPT !.type = "TORUS"]

\* C22: the effective facet count of the geometry builder follows the
\* documented table for every (kind, segments): with segments unset Prism
\* gives 3, Pyramid 4, and Cylinder, Cone and Sphere 32; a set segments value
\* is used as given; the legacy Wedge always gives 3; an unrecognized kind
\* yields the Box geometry.
C22_FacetTable ==
    /\ \A k \in 1..Len(customParts) :
           LET part == customParts[k]
           IN IF part.type = "BOX" THEN Family(geometry(part)) = "box"
              ELSE Facets(geometry(part)) = DocumentedFacets(part.type, Segments(part))
    /\ Family(geometry(UnrecognizedPart)) = "box"

\* the collection holds a wedge whose segments were set on the slider and
\* a pyramid whose segments are unset
C22_Witness ==
    /\ \E k \in 1..Len(customParts) :
           customParts[k].type = "WEDGE" /\ Segments(customParts[k]) = 16
    /\ \E k \in 1..Len(customParts) :
           customParts[k].type = "PYRAMID" /\ Segments(customParts[k]) = 0
\* the indices of the Custom parts of the collection
CustomIndices == {i \in ValidIndices : At(customParts, i).type = "CUSTOM"}

\* C23: a Custom part whose baked mesh is missing or cannot be parsed
\* renders as absent (no geometry, no exception escapes the builder), and
\* every other part of the collection still renders.
C23_BrokenCustomRendersAbsent ==
    /\ \A thrown \in SUBSET CustomIndices :
           LET rendered == ShapeRenderer(customParts, thrown)
           IN /\ Len(rendered) = Len(customParts)
              /\ \A i \in ValidIndices :
                     IF i \in thrown THEN At(rendered, i) = Null
                     ELSE /\ At(rendered, i) # Null
                          /\ At(rendered, i).geometry = geometry(At(customParts, i))
    /\ \A i \in CustomIndices :
           LET parts == [customParts EXCEPT
                             ![i + 1] = [@ EXCEPT !.geometryData = Undefined]]
               rendered == ShapeRenderer(parts, {})
           IN /\ At(rendered, i) = Null
              /\ \A j \in ValidIndices \ {i} : At(rendered, j) # Null

\* the collection holds a primitive part and, behind it, a boolean result
C23_Witness ==
    /\ Len(customParts) = 2
    /\ CustomIndices = {1}
\* C24: after any sequence of add and segment-edit actions, the facet count
\* used to build a part stays within its kind's valid range: at least 8 for
\* a Cylinder, and between 3 and 12 for a Prism or Pyramid.
C24_FacetsWithinKindRange ==
    \A k \in 1..Len(customParts) :
        LET part == customParts[k]
            facets == Facets(geometry(part))
        IN /\ part.type = "CYLINDER" => facets >= 8
           /\ part.type \in {"PRISM", "PYRAMID"} => facets >= 3 /\ facets <= 12

\* a cylinder was set to the lowest and a prism to the highest count their
\* sliders offer
C24_Witness ==
    /\ \E k \in 1..Len(customParts) :
           customParts[k].type = "CYLINDER" /\ Segments(customParts[k]) = 8
    /\ \E k \in 1..Len(customParts) :
           customParts[k].type = "PRISM" /\ Segments(customParts[k]) = 12
\* C25: on the UI edit paths every component of a part's stored scale stays
\* strictly positive after any sequence of edits, including an empty or
\* non-numeric field value.
C25_ScaleStaysPositive ==
    \A k \in 1..Len(customParts) :
        \A axis \in 1..3 : customParts[k].scale[axis] > 0
(***************************************************************************)
(* Properties of the history entries.                                      *)
(***************************************************************************)
\* the k-th entry of a stack counted from its bottom: history grows at its
\* end, future at its front
FromBottomOfPast(stack, k) == stack[k]
FromBottomOfFuture(stack, k) == stack[Len(stack) - k + 1]

\* the lesser of two lengths
Smaller(a, b) == IF a < b THEN a ELSE b

Timeline(s) == s.history \o <<s.customParts>> \o s.future

RECURSIVE UndoTimes(_, _)
UndoTimes(s, k) == IF k = 0 THEN s ELSE UndoTimes(handleUndo(s), k - 1)

RECURSIVE RedoTimes(_, _)
RedoTimes(s, k) == IF k = 0 THEN s ELSE RedoTimes(handleRedo(s), k - 1)

\* C28: undo and redo preserve the timeline: the sequence past, current
\* collection, future is the same before and after any undo or redo, so k
\* undos followed by k redos (k at most the length of past) restore exactly
\* the original collection, past and future.
C28_TimelinePreserved ==
    /\ Timeline(handleUndo(st)) = Timeline(st)
    /\ Timeline(handleRedo(st)) = Timeline(st)
    /\ \A k \in 0..Len(history) :
           LET r == RedoTimes(UndoTimes(st, k), k)
           IN /\ r.customParts = customParts
              /\ r.history = history
              /\ r.future = future

\* the collection sits in the middle of a timeline of four different
\* collections: two undo steps behind it, one redo entry ahead
C28_Witness ==
    /\ Len(history) = 2
    /\ Len(future) = 1
    /\ Cardinality({Timeline(st)[k] : k \in 1..4}) = 4
C30_SidebarShowsBuiltFacets ==
    \A k \in 1..Len(customParts) :
        customParts[k].type \in {"PRISM", "PYRAMID"} =>
            /\ layerListFacets(customParts[k]) = Facets(geometry(customParts[k]))
            /\ sliderShown(customParts[k]) = Facets(geometry(customParts[k]))
====
